---------------------------- MODULE Spec2Model ----------------------------
(***************************************************************************)
(* Model of the GESCO reporting jobs.                                      *)
(*                                                                         *)
(*   mmr_chunks_retrieval_script.py                                        *)
(*     fetch_answer_without_citations  resolves the report window from the *)
(*                                     UTC hour and queries the chats      *)
(*     fetch_mmr_chunks_and_scores     one vector-retrieval call           *)
(*     save_chunks_to_stringio         the job: fetch, then one retrieval  *)
(*                                     per question                        *)
(*   feedback_script.py                                                    *)
(*     fetch_feedback_data_in_chunks, export_to_csv,                       *)
(*     send_email_with_attachment, main                                    *)
(*                                                                         *)
(* An instant is a number of minutes since 00:00 UTC of day 0; seconds and *)
(* microseconds are dropped (the code zeroes them in start_time and never  *)
(* reads them from now_utc).                                               *)
(***************************************************************************)
EXTENDS Integers, Sequences, FiniteSets

VARIABLES
    now_utc,        \* datetime.now(timezone.utc) read by the run
    report_times,   \* the local list REPORT_TIMES_UTC, the same literal in every run
    window,         \* locals of fetch_answer_without_citations once computed
    job,            \* which script this behaviour runs
    pc,             \* position of the run
    questions,      \* value returned by fetch_answer_without_citations
    idx_q,          \* loop index of save_chunks_to_stringio
    file_content,   \* what save_chunks_to_stringio has written
    calls,          \* collaborator calls of the run, in order, with outcome
    fetched,        \* value returned by fetch_feedback_data_in_chunks
    csv_file,       \* value returned by export_to_csv
    emails_sent,    \* messages handed to the SMTP server
    chats,          \* the chats table, where it outlives one run
    runs,           \* the scheduled runs made so far, with what each returned
    next_due        \* the checkpoint whose scheduled run comes next

\* the state that only a sequence of scheduled runs uses
run_vars == <<chats, runs, next_due>>

vars == <<now_utc, report_times, window, job, pc, questions, idx_q,
          file_content, calls, fetched, csv_file, emails_sent, chats, runs,
          next_due>>

---------------------------------------------------------------------------
(* Bounds of the model *)

\* days on which a run may take place are 2..MaxDay
MaxDay == 2

\* most chat rows the record store holds when a run queries it
MaxChats == 2

\* scheduled runs in one behaviour of consecutive runs
MaxRuns == 3

---------------------------------------------------------------------------
(* Program constants *)

\* minute=30 in both replace() calls
MINUTE_OFFSET == 30

REPORT_TIMES_UTC == <<4, 7, 10, 13>>

None == "None"

---------------------------------------------------------------------------
(* datetime arithmetic *)

Instant(d, h, m) == d * 1440 + h * 60 + m

Day(t) == t \div 1440

Hour(t) == (t \div 60) % 24

\* t.replace(hour=h, minute=m, second=0, microsecond=0)
Replace(t, h, m) == Instant(Day(t), h, m)

\* t - timedelta(days=1)
MinusOneDay(t) == t - 1440

SetMax(S) == CHOOSE x \in S : \A y \in S : y <= x

SetMin(S) == CHOOSE x \in S : \A y \in S : x <= y

---------------------------------------------------------------------------
(* Python list helpers *)

\* lst[k] for a 0-based k that may be negative
PyIndex(lst, k) == IF k < 0 THEN lst[Len(lst) + k + 1] ELSE lst[k + 1]

\* lst.index(v): 0-based position of the first occurrence
PyIndexOf(lst, v) == SetMin({i \in DOMAIN lst : lst[i] = v}) - 1

---------------------------------------------------------------------------
(* Window resolution, lines 53-81 of fetch_answer_without_citations *)

\* [hour for hour in REPORT_TIMES_UTC if hour <= current_hour_utc]
passed_hours(times, current_hour_utc) ==
    {times[i] : i \in {j \in DOMAIN times : times[j] <= current_hour_utc}}

\* the comparison of line 57 written as hour < current_hour_utc
passed_hours_strict(times, current_hour_utc) ==
    {times[i] : i \in {j \in DOMAIN times : times[j] < current_hour_utc}}

\* the default REPORT_TIMES_UTC[-1] is evaluated before max() is called:
\* an empty list raises IndexError
resolve_raises(times) == Len(times) = 0

\* last_report_time with a checkpoint equal to the current hour not yet passed
last_report_time_strict(times, current_hour_utc) ==
    IF passed_hours_strict(times, current_hour_utc) = {}
    THEN PyIndex(times, -1)
    ELSE SetMax(passed_hours_strict(times, current_hour_utc))

last_report_time(times, current_hour_utc) ==
    IF passed_hours(times, current_hour_utc) = {}
    THEN PyIndex(times, -1)
    ELSE SetMax(passed_hours(times, current_hour_utc))

prev_report_idx(times, last) == PyIndexOf(times, last) - 1

prev_report_time(times, last) == PyIndex(times, prev_report_idx(times, last))

start_time(times, now) ==
    LET last == last_report_time(times, Hour(now))
    IN  IF last = PyIndex(times, 0)
        THEN Replace(MinusOneDay(now), PyIndex(times, -1), MINUTE_OFFSET)
        ELSE Replace(now, prev_report_time(times, last), MINUTE_OFFSET)

NoWindow == [resolved |-> FALSE]

\* the locals the function holds after line 81
ResolvedWindow(times, now) ==
    [resolved         |-> TRUE,
     current_hour_utc |-> Hour(now),
     last_report_time |-> last_report_time(times, Hour(now)),
     start_time       |-> start_time(times, now)]

---------------------------------------------------------------------------
(* The record store as the mmr query sees it, lines 84-105 *)

\* created_at values of the rows a run may find: one minute before and
\* exactly at each checkpoint instant of days 1..MaxDay
RecordTimes ==
    {Instant(d, REPORT_TIMES_UTC[i], MINUTE_OFFSET) - e :
        d \in 1..MaxDay, i \in DOMAIN REPORT_TIMES_UTC, e \in {0, 1}}

ChatRows(now) ==
    [created_at    : {t \in RecordTimes : t <= now},
     citations     : {"[]", "[c]"},
     in_department : BOOLEAN]

\* the subsets of rows with at most k elements
RECURSIVE TablesUpTo(_, _)
TablesUpTo(rows, k) ==
    IF k = 0 THEN {{}}
    ELSE LET smaller == TablesUpTo(rows, k - 1)
         IN  smaller \cup {T \cup {r} : T \in smaller, r \in rows}

\* the chats table at the time of the query: at most MaxChats rows
ChatTables(now) == TablesUpTo(ChatRows(now), MaxChats)

\* cast(citations, JSONB) == '{}' or jsonb_array_length(...) == 0
no_citations(row) == row.citations \in {"{}", "[]"}

\* the three filters of the query
query_rows(table, start) ==
    {r \in table : r.in_department /\ no_citations(r) /\ r.created_at >= start}

\* order_by(created_at.desc())
RECURSIVE order_by_desc(_)
order_by_desc(S) ==
    IF S = {} THEN <<>>
    ELSE LET m == CHOOSE r \in S : \A o \in S : o.created_at <= r.created_at
         IN  <<m>> \o order_by_desc(S \ {m})

Call(svc, ok) == [svc |-> svc, ok |-> ok]

---------------------------------------------------------------------------
(* Window resolution applied to one instant *)

Instants == {Instant(d, h, m) : d \in 2..MaxDay, h \in 0..23, m \in 0..59}

IdleJobVars ==
    /\ questions = None
    /\ idx_q = 0
    /\ file_content = <<>>
    /\ calls = <<>>
    /\ fetched = <<>>
    /\ csv_file = None
    /\ emails_sent = 0
    /\ chats = {}
    /\ runs = <<>>
    /\ next_due = None

Init ==
    /\ now_utc \in Instants
    /\ report_times = REPORT_TIMES_UTC
    /\ window = NoWindow
    /\ job = "resolve"
    /\ pc = "resolve"
    /\ IdleJobVars

\* lines 43-81
Resolve ==
    /\ pc = "resolve"
    /\ ~resolve_raises(report_times)
    /\ window' = ResolvedWindow(report_times, now_utc)
    /\ pc' = "resolved"
    /\ UNCHANGED run_vars
    /\ UNCHANGED <<now_utc, report_times, job, questions, idx_q, file_content,
                   calls, fetched, csv_file, emails_sent>>

Next == Resolve

Spec == Init /\ [][Next]_vars

---------------------------------------------------------------------------
(* The two jobs.  One behaviour runs one job once: save_chunks_to_stringio  *)
(* (job "mmr") or feedback_script.main (job "feedback").                      *)

\* instants at which a job may run: the start, the half and the last minute
\* of every hour
JobInstants == {Instant(d, h, m) : d \in 2..MaxDay, h \in 0..23, m \in {0, 30, 59}}

InitJob ==
    /\ now_utc \in JobInstants
    /\ report_times = REPORT_TIMES_UTC
    /\ window = NoWindow
    /\ job \in {"mmr", "feedback"}
    /\ pc = IF job = "mmr" THEN "save_chunks" ELSE "main"
    /\ IdleJobVars

\* The call at line 167 and the whole of fetch_answer_without_citations.
\*   get_db raises:  the except clause returns None, then db.close() in the
\*                   finally clause raises UnboundLocalError (db was never
\*                   bound), which leaves the function and the job
\*   empty list:     IndexError at line 58, caught at line 107: None
\*   query raises:   caught at line 107: None
\*   otherwise:      the rows the three filters keep, newest first
FetchAnswerWithoutCitations ==
    /\ pc = "save_chunks"
    /\ \E outcome \in {"ok", "get_db_raises", "query_raises"} :
       \E table \in ChatTables(now_utc) :
          IF outcome = "get_db_raises"
          THEN /\ calls' = Append(calls, Call("record_store", FALSE))
               /\ pc' = "raised"
               /\ UNCHANGED <<window, questions>>
          ELSE IF resolve_raises(report_times)
          THEN /\ calls' = Append(calls, Call("record_store", TRUE))
               /\ questions' = None
               /\ pc' = "check_questions"
               /\ UNCHANGED window
          ELSE /\ window' = ResolvedWindow(report_times, now_utc)
               /\ calls' = Append(calls, Call("record_store", outcome = "ok"))
               /\ questions' =
                      IF outcome = "ok"
                      THEN order_by_desc(
                               query_rows(table, start_time(report_times, now_utc)))
                      ELSE None
               /\ pc' = "check_questions"
    /\ UNCHANGED run_vars
    /\ UNCHANGED <<now_utc, report_times, job, idx_q, file_content, fetched,
                   csv_file, emails_sent>>

\* lines 168-172: "if not questions" is true of None and of the empty list
SaveChunksCheckQuestions ==
    /\ pc = "check_questions"
    /\ IF questions = None \/ questions = <<>>
       THEN /\ pc' = "returned_none"
            /\ UNCHANGED <<idx_q, file_content>>
       ELSE /\ pc' = "loop"
            /\ idx_q' = 1
            /\ file_content' = <<>>
    /\ UNCHANGED run_vars
    /\ UNCHANGED <<now_utc, report_times, window, job, questions, calls,
                   fetched, csv_file, emails_sent>>

\* One pass of the loop of lines 174-190 with fetch_mmr_chunks_and_scores:
\* the search returns chunks, returns none, or raises (caught at line 155,
\* None); "if not chunks" writes the placeholder and continues.
FetchMmrChunksAndScores ==
    /\ pc = "loop"
    /\ idx_q <= Len(questions)
    /\ \E outcome \in {"chunks", "no_chunks", "raises"} :
          /\ calls' = Append(calls, Call("vector", outcome # "raises"))
          /\ file_content' =
                 Append(file_content,
                        [idx_q    |-> idx_q,
                         question |-> questions[idx_q],
                         chunks   |-> outcome = "chunks"])
    /\ idx_q' = idx_q + 1
    /\ UNCHANGED run_vars
    /\ UNCHANGED <<now_utc, report_times, window, job, pc, questions, fetched,
                   csv_file, emails_sent>>

\* lines 192-194
SaveChunksReturn ==
    /\ pc = "loop"
    /\ idx_q > Len(questions)
    /\ pc' = "returned_file"
    /\ UNCHANGED run_vars
    /\ UNCHANGED <<now_utc, report_times, window, job, questions, idx_q,
                   file_content, calls, fetched, csv_file, emails_sent>>

\* the tuple returned at line 129
fetch_failed_result == <<None, 0, 0, 0>>

\* the tuple returned at lines 119-126: the chunk reader and six counts
fetch_ok_result == <<"reader", "count", "count", "count", "count", "count", "count">>

\* The call at line 242 and the whole of fetch_feedback_data_in_chunks;
\* get_db raising ends as in fetch_answer_without_citations (lines 53, 131).
FetchFeedbackDataInChunks ==
    /\ pc = "main"
    /\ \E outcome \in {"ok", "get_db_raises", "query_raises"} :
          /\ calls' = Append(calls, Call("record_store", outcome = "ok"))
          /\ IF outcome = "get_db_raises"
             THEN /\ pc' = "raised"
                  /\ UNCHANGED fetched
             ELSE /\ pc' = "unpack"
                  /\ fetched' = IF outcome = "ok" THEN fetch_ok_result
                                ELSE fetch_failed_result
    /\ UNCHANGED run_vars
    /\ UNCHANGED <<now_utc, report_times, window, job, questions, idx_q,
                   file_content, csv_file, emails_sent>>

\* lines 238-242: unpacking into seven names raises ValueError on any other
\* length
MainUnpack ==
    /\ pc = "unpack"
    /\ pc' = IF Len(fetched) = 7 THEN "export" ELSE "raised"
    /\ UNCHANGED run_vars
    /\ UNCHANGED <<now_utc, report_times, window, job, questions, idx_q,
                   file_content, calls, fetched, csv_file, emails_sent>>

\* lines 244-248 with export_to_csv: False for no data, None when reading or
\* converting a chunk raises, the buffer otherwise; main returns on a falsy
\* value
ExportToCsv ==
    /\ pc = "export"
    /\ \E outcome \in {"ok", "raises"} :
          /\ csv_file' = IF fetched[1] = None THEN "False"
                         ELSE IF outcome = "raises" THEN None
                         ELSE "StringIO"
          /\ calls' = IF fetched[1] = None THEN calls
                      ELSE Append(calls, Call("record_store", outcome = "ok"))
    /\ pc' = IF csv_file' = "StringIO" THEN "send" ELSE "main_returned"
    /\ UNCHANGED run_vars
    /\ UNCHANGED <<now_utc, report_times, window, job, questions, idx_q,
                   file_content, fetched, emails_sent>>

\* Lines 305-319 with send_email_with_attachment.  The function returns
\* False for any exception of lines 202-222:
\*   before_send:  building the message, connecting, starttls, login or
\*                 send_message raises; the server holds no message
\*   on_quit:      send_message has handed the message over, then leaving the
\*                 with block (QUIT not answered 221) raises; the server
\*                 holds the message although the function returns False
\*   sent:         returns True
SendEmailWithAttachment ==
    /\ pc = "send"
    /\ \E outcome \in {"sent", "raises_before_send", "raises_on_quit"} :
          LET email_success == outcome = "sent"
          IN  /\ calls' = Append(calls, Call("smtp", email_success))
              /\ emails_sent' = IF outcome = "raises_before_send"
                                THEN emails_sent ELSE emails_sent + 1
    /\ pc' = "main_returned"
    /\ UNCHANGED run_vars
    /\ UNCHANGED <<now_utc, report_times, window, job, questions, idx_q,
                   file_content, fetched, csv_file>>

NextJob ==
    \/ FetchAnswerWithoutCitations
    \/ SaveChunksCheckQuestions
    \/ FetchMmrChunksAndScores
    \/ SaveChunksReturn
    \/ FetchFeedbackDataInChunks
    \/ MainUnpack
    \/ ExportToCsv
    \/ SendEmailWithAttachment

SpecJob == InitJob /\ [][NextJob]_vars

---------------------------------------------------------------------------
(* Scheduled runs, day after day.  fetch_answer_without_citations runs once  *)
(* for every checkpoint, at or after the checkpoint's hh:30 instant and       *)
(* before the hour of the checkpoint that follows; chat rows are created in   *)
(* between and stay in the table.                                             *)

\* a checkpoint of the schedule: a day and a 1-based position in the list
Due(d, i) == [day |-> d, idx |-> i]

\* 04:30, 07:30, 10:30, 13:30 UTC (the comments of lines 46-49)
checkpoint_instant(due) ==
    Instant(due.day, REPORT_TIMES_UTC[due.idx], MINUTE_OFFSET)

following(due) ==
    IF due.idx = Len(REPORT_TIMES_UTC) THEN Due(due.day + 1, 1)
    ELSE Due(due.day, due.idx + 1)

\* the hour of the checkpoint that follows: the run of due comes before it
run_deadline(due) ==
    Instant(following(due).day, REPORT_TIMES_UTC[following(due).idx], 0)

\* the instants of a day the clock stops at: 02:00, and for every checkpoint
\* hour c the instants c:30, c:45 and (c+1):00
RunGrid ==
    {<<2, 0>>} \cup
    UNION {{<<REPORT_TIMES_UTC[i], MINUTE_OFFSET>>,
            <<REPORT_TIMES_UTC[i], 45>>,
            <<REPORT_TIMES_UTC[i] + 1, 0>>} : i \in DOMAIN REPORT_TIMES_UTC}

\* the first run of the behaviour is the 10:30 run of day 1
FirstDue == Due(1, 3)

RunInstants ==
    {t \in {Instant(d, g[1], g[2]) : d \in 1..MaxDay, g \in RunGrid} :
        t >= checkpoint_instant(FirstDue)}

InitRuns ==
    /\ now_utc = checkpoint_instant(FirstDue)
    /\ report_times = REPORT_TIMES_UTC
    /\ window = NoWindow
    /\ job = "scheduled"
    /\ pc = "scheduled"
    /\ questions = None
    /\ idx_q = 0
    /\ file_content = <<>>
    /\ calls = <<>>
    /\ fetched = <<>>
    /\ csv_file = None
    /\ emails_sent = 0
    /\ chats = {}
    /\ runs = <<>>
    /\ next_due = FirstDue

\* the clock moves to its next instant, unless the run that is due would
\* then be late; it stops after the last run of the behaviour
Tick ==
    /\ job = "scheduled"
    /\ Len(runs) < MaxRuns
    /\ \E t \in RunInstants :
          /\ t > now_utc
          /\ \A u \in RunInstants : u > now_utc => t <= u
          /\ t < run_deadline(next_due)
          /\ now_utc' = t
    /\ UNCHANGED <<report_times, window, job, pc, questions, idx_q,
                   file_content, calls, fetched, csv_file, emails_sent,
                   chats, runs, next_due>>

\* a user's chat is stored with created_at = now
CreateChat ==
    /\ job = "scheduled"
    /\ Cardinality(chats) < MaxChats
    /\ \E c \in {"[]", "[c]"}, dep \in BOOLEAN :
          chats' = chats \cup
                     {[created_at |-> now_utc, citations |-> c, in_department |-> dep]}
    /\ UNCHANGED <<now_utc, report_times, window, job, pc, questions, idx_q,
                   file_content, calls, fetched, csv_file, emails_sent,
                   runs, next_due>>

\* The scheduled run of the checkpoint that is due: the whole of
\* fetch_answer_without_citations on the table as it is now (outcomes as in
\* FetchAnswerWithoutCitations).
ScheduledFetch ==
    /\ job = "scheduled"
    /\ Len(runs) < MaxRuns
    /\ now_utc >= checkpoint_instant(next_due)
    /\ \E outcome \in {"ok", "get_db_raises", "query_raises"} :
          /\ calls' = <<Call("record_store", outcome = "ok")>>
          /\ window' = IF outcome = "get_db_raises" THEN NoWindow
                       ELSE ResolvedWindow(report_times, now_utc)
          /\ questions' =
                 IF outcome = "ok"
                 THEN order_by_desc(
                          query_rows(chats, start_time(report_times, now_utc)))
                 ELSE None
          /\ runs' = Append(runs,
                 [checkpoint |-> checkpoint_instant(next_due),
                  at         |-> now_utc,
                  ok         |-> outcome = "ok",
                  returned   |-> IF outcome = "ok"
                                 THEN query_rows(chats,
                                          start_time(report_times, now_utc))
                                 ELSE {}])
    /\ next_due' = following(next_due)
    /\ UNCHANGED <<now_utc, report_times, job, pc, idx_q, file_content,
                   fetched, csv_file, emails_sent, chats>>

NextRuns ==
    \/ Tick
    \/ CreateChat
    \/ ScheduledFetch

SpecRuns == InitRuns /\ [][NextRuns]_vars

---------------------------------------------------------------------------
(* The report window the claims speak of *)

\* The code computes no end of the window.  The claims define it from the
\* code's last_report_time: that hour at minute 30 of today's date, or of
\* yesterday's date when no checkpoint hour is <= the hour of now.
WindowEnd ==
    IF \E i \in DOMAIN report_times : report_times[i] <= Hour(now_utc)
    THEN Instant(Day(now_utc), window.last_report_time, 30)
    ELSE Instant(Day(now_utc) - 1, window.last_report_time, 30)

Today == Day(now_utc)

\* the checkpoint circularly preceding c in [4, 7, 10, 13]
CircularPred(c) == CASE c = 4 -> 13 [] c = 7 -> 4 [] c = 10 -> 7 [] c = 13 -> 10

---------------------------------------------------------------------------
(* Claims on window resolution *)

\* C1: with checkpoints [4,7,10,13] and offset 30, at every instant whose UTC
\* hour is below every checkpoint (hours 0..3) the window has
\* end = yesterday 13:30 and start_time = day-before-yesterday 10:30.
C1_BeforeFirstCheckpoint ==
    (window.resolved /\ Hour(now_utc) < 4) =>
        /\ WindowEnd = Instant(Today - 1, 13, 30)
        /\ window.start_time = Instant(Today - 2, 10, 30)

\* C2: with checkpoints [4,7,10,13] and offset 30, at every instant whose UTC
\* hour h is at or after the first checkpoint, last = max{c : c <= h} (a
\* checkpoint equal to h counts as passed), end = today last:30, and start is
\* the circular predecessor of last at :30, yesterday when last is the first
\* checkpoint and today otherwise; hour 5 gives (yesterday 13:30, today
\* 04:30) and hour 7 gives (today 04:30, today 07:30).
C2_PassedCheckpointWindow ==
    (window.resolved /\ Hour(now_utc) >= 4) =>
        LET h    == Hour(now_utc)
            last == CHOOSE c \in {4, 7, 10, 13} :
                        c <= h /\ \A d \in {4, 7, 10, 13} : d <= h => d <= c
        IN  /\ window.last_report_time = last
            /\ WindowEnd = Instant(Today, last, 30)
            /\ window.start_time =
                   Instant(IF last = 4 THEN Today - 1 ELSE Today,
                           CircularPred(last), 30)
            /\ h = 5 => /\ WindowEnd = Instant(Today, 4, 30)
                        /\ window.start_time = Instant(Today - 1, 13, 30)
            /\ h = 7 => /\ WindowEnd = Instant(Today, 7, 30)
                        /\ window.start_time = Instant(Today, 4, 30)

\* C2 witness: a run in hour 7, the hour of a checkpoint, has resolved
\* the window (today 04:30, today 07:30).
C2_Witness ==
    /\ window.resolved
    /\ Hour(now_utc) = 7
    /\ window.last_report_time = 7
    /\ window.start_time = Instant(Today, 4, 30)

\* C3: at every instant exactly one window is resolved and start_time < end.
C3_StartBeforeEnd ==
    window.resolved => window.start_time < WindowEnd

\* C5: at every instant the end of the window is not later than now, also
\* when the hour of now is a checkpoint hour and its minute is below 30.
C5_EndNotAfterNow ==
    window.resolved => WindowEnd <= now_utc

---------------------------------------------------------------------------
(* Claims on the jobs *)

\* C4: every chat row returned by fetch_answer_without_citations lies in the
\* half-open report window: start_time <= created_at < end; no row created
\* at or after end is attributed to the run.
C4_ReturnedRowsInWindow ==
    (job = "mmr" /\ window.resolved /\ pc # "save_chunks" /\ questions # None) =>
        \A i \in DOMAIN questions :
            /\ window.start_time <= questions[i].created_at
            /\ questions[i].created_at < WindowEnd

\* C7: a collaborator's failure makes the job abort without retry: no
\* collaborator is called in the run after a call that failed.
C7_NoCallAfterFailure ==
    \A i \in DOMAIN calls : i < Len(calls) => calls[i].ok

\* C10: in feedback_script, when the record-store fetch raises and is caught,
\* fetch_feedback_data_in_chunks returns a result that main's 7-way unpacking
\* accepts, export_to_csv yields no file and main returns normally without
\* an email; on every run at most one email is sent, and only after fetch and
\* export both succeeded.
C10_FetchFailureHandled ==
    job = "feedback" =>
        /\ (fetched # <<>> /\ ~calls[1].ok) =>
               /\ Len(fetched) = 7
               /\ pc # "raised"
               /\ pc = "main_returned" => (csv_file # "StringIO" /\ emails_sent = 0)
        /\ emails_sent <= 1
        /\ emails_sent = 1 =>
               /\ Len(calls) = 3
               /\ calls[1].ok /\ calls[2].ok
               /\ csv_file = "StringIO"

---------------------------------------------------------------------------
(* Claim on the sequence of scheduled runs *)

\* the rows the query is about: citation-less chats of the department
Eligible(r) == r.in_department /\ r.citations = "[]"

\* the number of runs that returned row r
TimesReturned(r) ==
    Cardinality({k \in DOMAIN runs : runs[k].ok /\ r \in runs[k].returned})

\* no row is returned by two different runs
NoRowReturnedTwice ==
    \A r \in chats : Eligible(r) => TimesReturned(r) <= 1

\* no row is skipped: a row created before the checkpoint instant of a run
\* that has been made was returned by that run or an earlier one
NoRowSkipped ==
    \A r \in chats :
        (Eligible(r) /\ \E k \in DOMAIN runs : r.created_at < runs[k].checkpoint)
            => TimesReturned(r) >= 1

\* C11: over runs made once per checkpoint, each at or after the checkpoint's
\* hh:30 instant and before the next checkpoint hour, every citation-less
\* chat row is returned by exactly one run: none is skipped and none is
\* returned by two runs (stated for behaviours in which no run failed).
C11_EachRowReturnedOnce ==
    (\A k \in DOMAIN runs : runs[k].ok) => (NoRowReturnedTwice /\ NoRowSkipped)

===========================================================================
